---- MODULE Spec2Model ----
(***************************************************************************)
(* Model of read_csv_from_gcs-3.py: a single-script ETL job that reads an  *)
(* order CSV from GCS, cleans it with PySpark column transforms, derives   *)
(* OrderValue, writes the result back to GCS and loads it into BigQuery.   *)
(*                                                                         *)
(* Text is a sequence of one-character strings, so that stripping,         *)
(* parsing and casting are computed character by character.  A cell of a   *)
(* DataFrame is a tagged record: null, text, int, float or date.  A float  *)
(* <<m, e>> stands for the decimal m / 10^e in lowest form (binary         *)
(* rounding of FloatType is not represented).  A DataFrame is a sequence   *)
(* of rows; the engine gives no order, the model keeps the input order.    *)
(***************************************************************************)
EXTENDS Integers, Sequences, FiniteSets, TLC

VARIABLES pc, run, gcs_path, source, df, cleaned_df, staging, table, log,
          trace, uncaught

vars == <<pc, run, gcs_path, source, df, cleaned_df, staging, table, log,
          trace, uncaught>>

----------------------------------------------------------------------------
(* Bounds of the model *)

\* longest generated raw field text
MaxLen == 3
\* most rows in a generated multi-row input
MaxRows == 3
\* most consecutive runs of the script
MaxRuns == 2
\* longest generated remainder of a path after the scheme prefix
MaxPathLen == 3

----------------------------------------------------------------------------
(* Characters and text *)

CR == "\r"
Digits == {"0", "1", "2", "3", "4", "5", "6", "7", "8", "9"}

DigitVal(c) ==
  CASE c = "0" -> 0 [] c = "1" -> 1 [] c = "2" -> 2 [] c = "3" -> 3
    [] c = "4" -> 4 [] c = "5" -> 5 [] c = "6" -> 6 [] c = "7" -> 7
    [] c = "8" -> 8 [] c = "9" -> 9

RECURSIVE Pow10(_)
Pow10(n) == IF n = 0 THEN 1 ELSE 10 * Pow10(n - 1)

\* all sequences over alphabet A of length 0..n
RECURSIVE SeqsUpTo(_, _)
SeqsUpTo(A, n) ==
  IF n = 0 THEN {<<>>}
  ELSE LET shorter == SeqsUpTo(A, n - 1)
       IN  shorter \cup {Append(s, c) : s \in shorter, c \in A}

\* str.startswith
StartsWith(s, prefix) ==
  /\ Len(s) >= Len(prefix)
  /\ SubSeq(s, 1, Len(prefix)) = prefix

\* leading/trailing blanks dropped, as the engine's string casts do
RECURSIVE TrimLeft(_)
TrimLeft(s) == IF s # <<>> /\ Head(s) = " " THEN TrimLeft(Tail(s)) ELSE s

RECURSIVE TrimRight(_)
TrimRight(s) ==
  IF s # <<>> /\ s[Len(s)] = " " THEN TrimRight(SubSeq(s, 1, Len(s) - 1)) ELSE s

Trim(s) == TrimRight(TrimLeft(s))

----------------------------------------------------------------------------
(* Cells *)

Null == [k |-> "null"]
Text(s) == [k |-> "text", v |-> s]
IntV(n) == [k |-> "int", v |-> n]
DateV(y, m, d) == [k |-> "date", v |-> <<y, m, d>>]

\* lowest form of m / 10^e
RECURSIVE Normalize(_, _)
Normalize(m, e) ==
  IF m = 0 THEN <<0, 0>>
  ELSE IF e > 0 /\ m % 10 = 0 THEN Normalize(m \div 10, e - 1)
  ELSE <<m, e>>

FloatV(m, e) == [k |-> "float", v |-> Normalize(m, e)]

IsNull(c) == c.k = "null"

\* the text form of a literal placed in a string column (lit(100), lit(3))
RECURSIVE DigitsOf(_)
DigitsOf(n) ==
  LET d == CASE n % 10 = 0 -> "0" [] n % 10 = 1 -> "1" [] n % 10 = 2 -> "2"
             [] n % 10 = 3 -> "3" [] n % 10 = 4 -> "4" [] n % 10 = 5 -> "5"
             [] n % 10 = 6 -> "6" [] n % 10 = 7 -> "7" [] n % 10 = 8 -> "8"
             [] n % 10 = 9 -> "9"
  IN  IF n < 10 THEN <<d>> ELSE Append(DigitsOf(n \div 10), d)

----------------------------------------------------------------------------
(* Engine conversions used by clean_data *)

RECURSIVE AllDigits(_)
AllDigits(s) == s = <<>> \/ (Head(s) \in Digits /\ AllDigits(Tail(s)))

RECURSIVE DigitsValue(_)
DigitsValue(s) ==
  IF s = <<>> THEN 0
  ELSE 10 * DigitsValue(SubSeq(s, 1, Len(s) - 1)) + DigitVal(s[Len(s)])

\* index of the first "." of s, Len(s) + 1 when there is none
RECURSIVE DotIndex(_)
DotIndex(s) ==
  IF s = <<>> THEN 1
  ELSE IF Head(s) = "." THEN 1
  ELSE 1 + DotIndex(Tail(s))

\* Integer.MIN_VALUE / 10 of the 32-bit integer type
StopValue == -214748364
IntMin == -2147483647 - 1

\* the digits accumulated as a negative number, as the cast does to reach the
\* smallest integer; 1 stands for "out of the 32-bit range"
RECURSIVE Accumulate(_, _)
Accumulate(s, result) ==
  IF s = <<>> THEN result
  ELSE IF result < StopValue THEN 1
  ELSE IF result = StopValue /\ DigitVal(Head(s)) > 8 THEN 1
  ELSE Accumulate(Tail(s), result * 10 - DigitVal(Head(s)))

\* string -> integer cast: blanks trimmed, optional sign, digits up to an
\* optional ".", after which only digits may follow and are dropped; a value
\* outside the 32-bit range, or any other text, gives null
CastIntegerText(s) ==
  LET t == Trim(s)
  IN  IF t = <<>> THEN Null
      ELSE LET negative == Head(t) = "-"
               signed   == negative \/ Head(t) = "+"
           IN  IF signed /\ Len(t) = 1 THEN Null
               ELSE LET body == IF signed THEN Tail(t) ELSE t
                        dot  == DotIndex(body)
                        ip   == SubSeq(body, 1, dot - 1)
                        fp   == SubSeq(body, dot + 1, Len(body))
                    IN  IF ~AllDigits(ip) \/ ~AllDigits(fp) THEN Null
                        ELSE LET result == Accumulate(ip, 0)
                             IN  IF result > 0 THEN Null
                                 ELSE IF negative THEN IntV(result)
                                 ELSE IF result = IntMin THEN Null
                                 ELSE IntV(-result)

\* col.cast("integer") / cast(IntegerType())
CastInteger(c) ==
  CASE c.k = "null" -> Null
    [] c.k = "text" -> CastIntegerText(c.v)
    [] c.k = "int"  -> c

\* string -> float cast: blanks trimmed, optional sign, decimal digits with at
\* most one "." and at least one digit; any other text gives null.  (Exponent,
\* suffix and NaN/Infinity forms use characters the inputs never combine.)
CastFloatText(s) ==
  LET t == Trim(s)
  IN  IF t = <<>> THEN Null
      ELSE LET negative == Head(t) = "-"
               signed   == negative \/ Head(t) = "+"
               body     == IF signed THEN Tail(t) ELSE t
               dot      == DotIndex(body)
               ip       == SubSeq(body, 1, dot - 1)
               fp       == SubSeq(body, dot + 1, Len(body))
           IN  IF ~AllDigits(ip) \/ ~AllDigits(fp) \/ Len(ip) + Len(fp) = 0
               THEN Null
               ELSE LET m == DigitsValue(ip) * Pow10(Len(fp)) + DigitsValue(fp)
                    IN  FloatV(IF negative THEN -m ELSE m, Len(fp))

\* cast(FloatType())
CastFloat(c) ==
  CASE c.k = "null"  -> Null
    [] c.k = "text"  -> CastFloatText(c.v)
    [] c.k = "int"   -> FloatV(c.v, 0)
    [] c.k = "float" -> c

IsLeapYear(y) == (y % 4 = 0 /\ y % 100 # 0) \/ y % 400 = 0

DaysInMonth(y, m) ==
  IF m = 2 THEN (IF IsLeapYear(y) THEN 29 ELSE 28)
  ELSE IF m \in {4, 6, 9, 11} THEN 30 ELSE 31

\* to_date(col, "yyyy-MM-dd"): four digits, "-", two digits, "-", two digits,
\* naming a day of the calendar; anything else gives null
ToDateText(s) ==
  IF /\ Len(s) = 10
     /\ s[5] = "-" /\ s[8] = "-"
     /\ \A i \in {1, 2, 3, 4, 6, 7, 9, 10} : s[i] \in Digits
  THEN LET y == DigitsValue(SubSeq(s, 1, 4))
           m == DigitsValue(SubSeq(s, 6, 7))
           d == DigitsValue(SubSeq(s, 9, 10))
       IN  IF m \in 1..12 /\ d \in 1..DaysInMonth(y, m) THEN DateV(y, m, d)
           ELSE Null
  ELSE Null

ToDate(c) ==
  CASE c.k = "null" -> Null
    [] c.k = "text" -> ToDateText(c.v)
    [] c.k = "date" -> c

\* current_date(): the day of the run
CurrentDate == DateV(2026, 11, 4)

\* regexp_replace(col, r'\r', ''): the column becomes a string column with
\* every carriage return removed; null stays null
RECURSIVE RemoveCR(_)
RemoveCR(s) ==
  IF s = <<>> THEN <<>>
  ELSE IF Head(s) = CR THEN RemoveCR(Tail(s))
  ELSE <<Head(s)>> \o RemoveCR(Tail(s))

RegexpReplaceCR(c) ==
  CASE c.k = "null" -> Null
    [] c.k = "text" -> Text(RemoveCR(c.v))
    [] c.k = "int"  -> Text(IF c.v < 0 THEN <<"-">> \o DigitsOf(-c.v)
                            ELSE DigitsOf(c.v))

----------------------------------------------------------------------------
(* clean_data, step by step on one row, then on the DataFrame *)

OneHundredPounds ==
  <<"O", "n", "e", " ", "H", "u", "n", "d", "r", "e", "d", " ",
    "P", "o", "u", "n", "d", "s">>

Three == <<"T", "h", "r", "e", "e">>

DefaultProductID == 1000
DefaultQuantity == 0
DefaultOrderAmount == 0
HundredPoundsAmount == 100
ThreeQuantity == 3

\* df.columns of the order file
Columns ==
  {"OrderID", "CustomerId", "ProductID", "OrderDate", "OrderAmount", "Quantity"}

\* for col_name in df.columns: regexp_replace(col(col_name), r'\r', '')
StripColumns(r) == [c \in DOMAIN r |-> RegexpReplaceCR(r[c])]

\* OrderID, CustomerId, ProductID cast to integer
CastIds(r) ==
  [r EXCEPT !.OrderID    = CastInteger(@),
            !.CustomerId = CastInteger(@),
            !.ProductID  = CastInteger(@)]

\* variant: the current_date() fallback left out
ParseOrderDate_NoFill(r) == [r EXCEPT !.OrderDate = ToDate(@)]

\* to_date(OrderDate, "yyyy-MM-dd"), then current_date() where that is null
ParseOrderDate(r) ==
  LET parsed == ToDate(r.OrderDate)
  IN  [r EXCEPT !.OrderDate = IF IsNull(parsed) THEN CurrentDate ELSE parsed]

\* when(OrderAmount == "One Hundred Pounds", lit(100)).otherwise(OrderAmount),
\* a string column, then cast to float
NormalizeOrderAmount(r) ==
  LET replaced == IF r.OrderAmount = Text(OneHundredPounds)
                  THEN Text(DigitsOf(HundredPoundsAmount))
                  ELSE r.OrderAmount
  IN  [r EXCEPT !.OrderAmount = CastFloat(replaced)]

\* variant: the "Three" replacement left out, the cast alone
NormalizeQuantity_NoLiteral(r) == [r EXCEPT !.Quantity = CastInteger(@)]

\* when(Quantity == "Three", lit(3)).otherwise(Quantity), a string column,
\* then cast to integer
NormalizeQuantity(r) ==
  LET replaced == IF r.Quantity = Text(Three)
                  THEN Text(DigitsOf(ThreeQuantity))
                  ELSE r.Quantity
  IN  [r EXCEPT !.Quantity = CastInteger(replaced)]

\* variant: CustomerId given a default as well
FillMissing_CustomerId(r) ==
  [r EXCEPT !.ProductID   = IF IsNull(@) THEN IntV(DefaultProductID) ELSE @,
            !.CustomerId  = IF IsNull(@) THEN IntV(0) ELSE @,
            !.Quantity    = IF IsNull(@) THEN IntV(DefaultQuantity) ELSE @,
            !.OrderAmount = IF IsNull(@) THEN FloatV(DefaultOrderAmount, 0)
                            ELSE @]

\* null ProductID -> 1000, null Quantity -> 0, null OrderAmount -> 0
FillMissing(r) ==
  [r EXCEPT !.ProductID   = IF IsNull(@) THEN IntV(DefaultProductID) ELSE @,
            !.Quantity    = IF IsNull(@) THEN IntV(DefaultQuantity) ELSE @,
            !.OrderAmount = IF IsNull(@) THEN FloatV(DefaultOrderAmount, 0)
                            ELSE @]

\* the column transforms of clean_data in the order of the code
CleanRow(r) ==
  FillMissing(NormalizeQuantity(NormalizeOrderAmount(ParseOrderDate(
    CastIds(StripColumns(r))))))

\* df.dropDuplicates(): one row kept of every group of equal rows
RECURSIVE DropDuplicates(_)
DropDuplicates(rows) ==
  IF rows = <<>> THEN <<>>
  ELSE LET front == DropDuplicates(SubSeq(rows, 1, Len(rows) - 1))
           last  == rows[Len(rows)]
       IN  IF \E i \in 1..Len(front) : front[i] = last THEN front
           ELSE Append(front, last)

\* variant: duplicates dropped from the raw rows, before the column transforms
clean_data_DedupFirst(rows) ==
  LET kept == DropDuplicates(rows)
  IN  [i \in 1..Len(kept) |-> CleanRow(kept[i])]

clean_data(rows) ==
  DropDuplicates([i \in 1..Len(rows) |-> CleanRow(rows[i])])

\* col("OrderAmount") * col("Quantity"): float times integer, null if either
\* factor is null
Multiply(a, q) ==
  IF IsNull(a) \/ IsNull(q) THEN Null
  ELSE FloatV(a.v[1] * q.v, a.v[2])

\* variant: the product taken with the wrong integer column
WithOrderValue_WrongColumn(r) ==
  [c \in DOMAIN r \cup {"OrderValue"} |->
     IF c = "OrderValue" THEN Multiply(r.OrderAmount, r.ProductID) ELSE r[c]]

\* cleaned_df.withColumn("OrderValue", OrderAmount * Quantity)
WithOrderValue(r) ==
  [c \in DOMAIN r \cup {"OrderValue"} |->
     IF c = "OrderValue" THEN Multiply(r.OrderAmount, r.Quantity) ELSE r[c]]

AddOrderValue(rows) == [i \in 1..Len(rows) |-> WithOrderValue(rows[i])]

----------------------------------------------------------------------------
(* Source reader and sinks *)

None == [k |-> "none"]
DF(rows) == [k |-> "df", rows |-> rows]

Return(v) == [kind |-> "return", val |-> v]
Raise(e) == [kind |-> "raise", val |-> e]

GsPrefix == <<"g", "s", ":", "/", "/">>

\* index of the first "/" of s, Len(s) + 1 when there is none
RECURSIVE SlashIndex(_)
SlashIndex(s) ==
  IF s = <<>> THEN 1
  ELSE IF Head(s) = "/" THEN 1
  ELSE 1 + SlashIndex(Tail(s))

\* str.split("/", 1): at most one split, at the first "/"
SplitOnce(s) ==
  LET i == SlashIndex(s)
  IN  IF i > Len(s) THEN <<s>>
      ELSE <<SubSeq(s, 1, i - 1), SubSeq(s, i + 1, Len(s))>>

\* str.split("/"): split at every "/"
RECURSIVE SplitAll(_)
SplitAll(s) ==
  LET i == SlashIndex(s)
  IN  IF i > Len(s) THEN <<s>>
      ELSE <<SubSeq(s, 1, i - 1)>> \o SplitAll(SubSeq(s, i + 1, Len(s)))

\* variant: split without the limit of one, so the key stops at the next "/"
parse_gcs_path_SplitAll(path) ==
  IF StartsWith(path, GsPrefix)
  THEN LET parts       == SplitAll(SubSeq(path, Len(GsPrefix) + 1, Len(path)))
           bucket_name == parts[1]
           blob_name   == IF Len(parts) > 1 THEN parts[2] ELSE <<>>
       IN  Return(<<bucket_name, blob_name>>)
  ELSE Raise("ValueError")

parse_gcs_path(path) ==
  IF StartsWith(path, GsPrefix)
  THEN LET parts       == SplitOnce(SubSeq(path, Len(GsPrefix) + 1, Len(path)))
           bucket_name == parts[1]
           blob_name   == IF Len(parts) > 1 THEN parts[2] ELSE <<>>
       IN  Return(<<bucket_name, blob_name>>)
  ELSE Raise("ValueError")

\* the body of the try block: the path is parsed, the blob downloaded and
\* the CSV read; io_ok is whether storage and the CSV reader answer
ReadBody(path, object, io_ok) ==
  LET parsed == parse_gcs_path(path)
  IN  IF parsed.kind = "raise" THEN parsed
      ELSE IF parsed.val[1] = <<>> \/ parsed.val[2] = <<>> \/ ~io_ok
      THEN Raise("IOError")
      ELSE Return(object)

\* variant: no except clause, the failure leaves the function
read_data_from_gcs_NoExcept(path, object, io_ok) ==
  LET body == ReadBody(path, object, io_ok)
  IN  IF body.kind = "raise" THEN body
      ELSE [kind |-> "return", val |-> body.val,
            log |-> <<"Data read successfully from GCS!">>]

\* try: ... return df / except Exception: print(...); return None
read_data_from_gcs(path, object, io_ok) ==
  LET body == ReadBody(path, object, io_ok)
  IN  IF body.kind = "raise"
      THEN [kind |-> "return", val |-> None,
            log |-> <<"Error reading CSV file from GCS">>]
      ELSE [kind |-> "return", val |-> body.val,
            log |-> <<"Data read successfully from GCS!">>]

\* variant: no except clause around the write
save_to_gcs_NoExcept(data, ok, after) ==
  IF ok
  THEN [kind |-> "return", staging |-> data,
        log |-> <<"File successfully written to GCS">>]
  ELSE Raise("IOError")

\* df.write.option("header", True).mode("overwrite").csv(gcs_path) inside
\* try/except: on success the destination holds exactly df; on failure the
\* error is printed and the destination is what the failed write left (after)
save_to_gcs(data, ok, after) ==
  IF ok
  THEN [kind |-> "return", staging |-> data,
        log |-> <<"File successfully written to GCS">>]
  ELSE [kind |-> "return", staging |-> after,
        log |-> <<"Error saving to GCS">>]

\* client.load_table_from_dataframe(df_pandas, table_ref) with no job_config:
\* the load job runs with the default write disposition, which appends
LoadTable(old, rows) == old \o rows

\* toPandas, load, job.result() inside try/except
write_to_bq(data, ok, old) ==
  IF ok
  THEN [kind |-> "return", table |-> LoadTable(old, data.rows),
        log |-> <<"Data successfully written to BigQuery table">>]
  ELSE [kind |-> "return", table |-> old,
        log |-> <<"Error writing to BigQuery">>]

----------------------------------------------------------------------------
(* Inputs *)

EndToEndRow ==
  [OrderID |-> Text(<<"1">>),
   CustomerId |-> Text(<<"1", "0">>),
   ProductID |-> Null,
   OrderDate |-> Text(<<"2", "0", "2", "4", "-", "1", "3", "-", "4", "5">>),
   OrderAmount |-> Text(OneHundredPounds),
   Quantity |-> Text(Three)]

EndToEndRowCR ==
  [OrderID |-> Text(<<"1", CR>>),
   CustomerId |-> Text(<<"1", "0">>),
   ProductID |-> Null,
   OrderDate |-> Text(<<"2", "0", "2", "4", "-", "1", "3", "-", "4", "5">>),
   OrderAmount |-> Text(<<"O", "n", "e", " ", "H", "u", "n", "d", "r", "e", "d", CR, " ", "P", "o", "u", "n", "d", "s">>),
   Quantity |-> Text(<<"T", "h", "r", "e", "e", CR>>)]

EndToEndRowFilled ==
  [OrderID |-> Text(<<"1">>),
   CustomerId |-> Text(<<"1", "0">>),
   ProductID |-> Text(<<"1", "0", "0", "0">>),
   OrderDate |-> Text(<<"x">>),
   OrderAmount |-> Text(<<"1", "0", "0">>),
   Quantity |-> Text(<<"3">>)]

PlainRow ==
  [OrderID |-> Text(<<"2">>),
   CustomerId |-> Text(<<"1", "0">>),
   ProductID |-> Text(<<"7">>),
   OrderDate |-> Text(<<"2", "0", "2", "4", "-", "0", "1", "-", "0", "5">>),
   OrderAmount |-> Text(<<"5", "0">>),
   Quantity |-> Text(<<"2">>)]

BrokenRow ==
  [OrderID |-> Text(<<"x">>),
   CustomerId |-> Null,
   ProductID |-> Text(<<"7">>),
   OrderDate |-> Text(<<"2", "0", "2", "4", "-", "0", "2", "-", "3", "0">>),
   OrderAmount |-> Text(<<"a", "b", "c">>),
   Quantity |-> Null]

DecimalRow ==
  [OrderID |-> Text(<<"2">>),
   CustomerId |-> Text(<<"1", "0">>),
   ProductID |-> Text(<<"7">>),
   OrderDate |-> Text(<<"2", "0", "2", "4", "-", "0", "1", "-", "0", "5">>),
   OrderAmount |-> Text(<<"2", ".", "5">>),
   Quantity |-> Text(<<"1", ".", "5">>)]

SampleRows ==
  {EndToEndRow,
   EndToEndRowCR,
   EndToEndRowFilled,
   PlainRow,
   BrokenRow,
   DecimalRow}

\* raw texts beyond the generated ones: the literals and their near misses,
\* dates, blanks, signs, leading and trailing zeros, the 32-bit limits
SpecialTexts ==
  {OneHundredPounds, Three,
   <<"T", "h", "r", "e", "e", CR>>,
   <<"T", CR, "h", "r", "e", "e">>,
   <<"t", "h", "r", "e", "e">>,
   <<"T", "h", "r", "e", "e", " ">>,
   <<"T", "h", "r", "e", "e", "s">>,
   <<"O", "n", "e", " ", "H", "u", "n", "d", "r", "e", "d", " ", "P", "o", "u", "n", "d", "s", CR>>,
   <<"O", "n", "e", " ", "H", "u", "n", "d", "r", "e", "d", " ", " ", "P", "o", "u", "n", "d", "s">>,
   <<"2", "0", "2", "4", "-", "0", "1", "-", "0", "5">>,
   <<"2", "0", "2", "4", "-", "1", "3", "-", "4", "5">>,
   <<"2", "0", "2", "4", "-", "0", "2", "-", "3", "0">>,
   <<"2", "0", "2", "4", "-", "0", "2", "-", "2", "9">>,
   <<"2", "0", "2", "3", "-", "0", "2", "-", "2", "9">>,
   <<"2", "0", "2", "4", "-", "1", "-", "0", "5">>,
   <<"2", "0", "2", "4", "-", "0", "1", "-", "0", "5", CR>>,
   <<"2", "0", "2", "4", "/", "0", "1", "/", "0", "5">>,
   <<"1", ".", "5", "0">>,
   <<"1", "0", "0">>,
   <<"1", "0", "0", "0">>,
   <<"0", "0", "7">>,
   <<" ", "5">>,
   <<"5", " ">>,
   <<"+", "5">>,
   <<"+">>,
   <<"1", " ", "5">>,
   <<"0">>,
   <<"3">>}

\* texts at the ends of the 32-bit range, for the identifier columns
LimitTexts ==
  {<<"2", "1", "4", "7", "4", "8", "3", "6", "4", "7">>,
   <<"2", "1", "4", "7", "4", "8", "3", "6", "4", "8">>,
   <<"2", "1", "4", "7", "4", "8", "3", "6", "4", "9">>,
   <<"-", "2", "1", "4", "7", "4", "8", "3", "6", "4", "8">>,
   <<"-", "2", "1", "4", "7", "4", "8", "3", "6", "4", "9">>,
   <<"9", "9", "9", "9", "9", "9", "9", "9", "9", "9", "9">>}

IdColumns == {"OrderID", "CustomerId", "ProductID"}

Alphabet == {"1", "5", ".", "-", "x", CR}

\* a CSV field is null when empty, text otherwise.  (A column the reader
\* infers as numeric reaches the transforms as text again, because
\* regexp_replace is applied to every column first; the model feeds the text.)
RawCells(c) ==
  {Null} \cup
  {Text(t) : t \in (SeqsUpTo(Alphabet, MaxLen) \cup SpecialTexts
                      \cup (IF c \in IdColumns THEN LimitTexts ELSE {}))
                   \ {<<>>}}

\* a row of the file with one field replaced
WideRows ==
  UNION {{[PlainRow EXCEPT ![c] = v] : v \in RawCells(c)} : c \in Columns}

\* the files with up to MaxRows of the sample rows
SampleFiles == {DF(rows) : rows \in SeqsUpTo(SampleRows, MaxRows)}

\* gcs_path of main: 'gs://myproject_landing/order.csv'
MainPath ==
  <<"g", "s", ":", "/", "/", "m", "y", "p", "r", "o", "j", "e", "c", "t", "_", "l", "a", "n", "d", "i", "n", "g", "/", "o", "r", "d", "e", "r", ".", "c", "s", "v">>

PathAlphabet == {"b", "/"}

Paths ==
  {GsPrefix \o t : t \in SeqsUpTo(PathAlphabet, MaxPathLen)}
    \cup {<<>>,
          <<"b", "/", "b">>,
          <<"g", "s", ":", "/", "b", "/", "b">>,
          <<"s", "3", ":", "/", "/", "b", "/", "b">>,
          <<"G", "s", ":", "/", "/", "b", "/", "b">>,
          <<"/", "g", "s", ":", "/", "/", "b", "/", "b">>}

\* a row already in the warehouse table and the staging area before the run
PriorRow ==
  WithOrderValue(CleanRow(
    [PlainRow EXCEPT !.OrderID = Text(<<"9">>), !.Quantity = Text(<<"1">>)]))

----------------------------------------------------------------------------
(* The run of main *)

\* the state of a fresh process
Start ==
  /\ pc = "read"
  /\ run = 1
  /\ df = None
  /\ cleaned_df = None
  /\ log = <<>>
  /\ trace = <<>>
  /\ uncaught = "none"

\* any path, or any file of sample rows at the path of main; the staging
\* area and the table empty or holding a row of an earlier load
Init ==
  /\ Start
  /\ \E prior \in {<<>>, <<PriorRow>>} :
       /\ table = prior
       /\ staging = IF prior = <<>> THEN None ELSE DF(prior)
  /\ \/ gcs_path \in Paths /\ source = DF(<<PlainRow>>)
     \/ gcs_path = MainPath /\ source \in SampleFiles

\* one file at the path of main: a single row with any raw field, or sample
\* rows; the staging area and the table empty
InitClean ==
  /\ Start
  /\ table = <<>>
  /\ staging = None
  /\ gcs_path = MainPath
  /\ source \in {DF(<<r>>) : r \in WideRows} \cup SampleFiles

Stage(name, data) == [stage |-> name, data |-> data]

\* df = read_data_from_gcs(gcs_path); if df is not None: ...
Read ==
  /\ pc = "read"
  /\ \E io_ok \in BOOLEAN :
       LET out == read_data_from_gcs(gcs_path, source, io_ok)
       IN  IF out.kind = "raise"
           THEN /\ pc' = "crashed"
                /\ uncaught' = out.val
                /\ UNCHANGED <<df, log, trace>>
           ELSE /\ df' = out.val
                /\ log' = log \o out.log
                /\ trace' = Append(trace, Stage("read", out.val))
                /\ pc' = IF out.val # None THEN "clean" ELSE "done"
                /\ UNCHANGED uncaught
  /\ UNCHANGED <<run, gcs_path, source, cleaned_df, staging, table>>

\* cleaned_df = clean_data(df)
Clean ==
  /\ pc = "clean"
  /\ cleaned_df' = DF(clean_data(df.rows))
  /\ log' = Append(log, "Data cleaned successfully!")
  /\ trace' = Append(trace, Stage("clean", cleaned_df'))
  /\ pc' = "derive"
  /\ UNCHANGED <<run, gcs_path, source, df, staging, table, uncaught>>

\* cleaned_df = cleaned_df.withColumn("OrderValue", ...)
Derive ==
  /\ pc = "derive"
  /\ cleaned_df' = DF(AddOrderValue(cleaned_df.rows))
  /\ trace' = Append(trace, Stage("derive", cleaned_df'))
  /\ pc' = "save"
  /\ UNCHANGED <<run, gcs_path, source, df, staging, table, log, uncaught>>

\* save_to_gcs(cleaned_df, gcs_output_path)
Save ==
  /\ pc = "save"
  /\ \E ok \in BOOLEAN, after \in {staging, None} :
       LET out == save_to_gcs(cleaned_df, ok, after)
       IN  IF out.kind = "raise"
           THEN /\ pc' = "crashed"
                /\ uncaught' = out.val
                /\ UNCHANGED <<staging, log, trace>>
           ELSE /\ staging' = out.staging
                /\ log' = log \o out.log
                /\ trace' = Append(trace, Stage("save", cleaned_df))
                /\ pc' = "write_bq"
                /\ UNCHANGED uncaught
  /\ UNCHANGED <<run, gcs_path, source, df, cleaned_df, table>>

\* variant: the warehouse is given the frame as clean_data returned it
WriteBq_WrongFrame ==
  /\ pc = "write_bq"
  /\ \E ok \in BOOLEAN :
       LET arg == DF(clean_data(df.rows))
           out == write_to_bq(arg, ok, table)
       IN  /\ table' = out.table
           /\ log' = log \o out.log
           /\ trace' = Append(trace, Stage("write_bq", arg))
           /\ pc' = "done"
           /\ UNCHANGED uncaught
  /\ UNCHANGED <<run, gcs_path, source, df, cleaned_df, staging>>

\* write_to_bq(cleaned_df, project_id, dataset_id, table_id)
WriteBq ==
  /\ pc = "write_bq"
  /\ \E ok \in BOOLEAN :
       LET out == write_to_bq(cleaned_df, ok, table)
       IN  IF out.kind = "raise"
           THEN /\ pc' = "crashed"
                /\ uncaught' = out.val
                /\ UNCHANGED <<table, log, trace>>
           ELSE /\ table' = out.table
                /\ log' = log \o out.log
                /\ trace' = Append(trace, Stage("write_bq", cleaned_df))
                /\ pc' = "done"
                /\ UNCHANGED uncaught
  /\ UNCHANGED <<run, gcs_path, source, df, cleaned_df, staging>>

\* the script is started again on the same input; the staging area and the
\* warehouse table are what the run before left
Rerun ==
  /\ pc = "done"
  /\ run < MaxRuns
  /\ run' = run + 1
  /\ pc' = "read"
  /\ df' = None
  /\ cleaned_df' = None
  /\ log' = <<>>
  /\ trace' = <<>>
  /\ UNCHANGED <<gcs_path, source, staging, table, uncaught>>

Next == Read \/ Clean \/ Derive \/ Save \/ WriteBq \/ Rerun

Spec == Init /\ [][Next]_vars

\* a single run of the script
NextClean == Read \/ Clean \/ Derive \/ Save \/ WriteBq

SpecClean == InitClean /\ [][NextClean]_vars

----------------------------------------------------------------------------
(* What the specification expects of a cleaned row, stated from the raw     *)
(* text without the engine's conversions                                    *)

NoCR(t) == SelectSeq(t, LAMBDA ch : ch # CR)

Unsigned(u) == IF u # <<>> /\ u[1] \in {"+", "-"} THEN Tail(u) ELSE u

IsNegative(u) == u # <<>> /\ u[1] = "-"

DotCount(u) == Cardinality({i \in 1..Len(u) : u[i] = "."})

DotAt(u) ==
  IF DotCount(u) = 0 THEN Len(u) + 1 ELSE CHOOSE i \in 1..Len(u) : u[i] = "."

WholeDigits(u) == SubSeq(u, 1, DotAt(u) - 1)
FracDigits(u) == SubSeq(u, DotAt(u) + 1, Len(u))

\* digits and at most one ".", nothing else
DecimalShape(u) ==
  /\ u # <<>>
  /\ \A i \in 1..Len(u) : u[i] \in Digits \cup {"."}
  /\ DotCount(u) <= 1

\* a decimal numeral: optional sign, at least one digit
IsNumericText(t) ==
  LET u == Unsigned(Trim(t))
  IN  DecimalShape(u) /\ \E i \in 1..Len(u) : u[i] \in Digits

RECURSIVE PosValue(_, _)
PosValue(d, i) ==
  IF i > Len(d) THEN 0
  ELSE DigitVal(d[i]) * Pow10(Len(d) - i) + PosValue(d, i + 1)

RECURSIVE StripZeros(_)
StripZeros(d) == IF d # <<>> /\ d[1] = "0" THEN StripZeros(Tail(d)) ELSE d

MaxDigits == <<"2", "1", "4", "7", "4", "8", "3", "6", "4", "7">>
MinDigits == <<"2", "1", "4", "7", "4", "8", "3", "6", "4", "8">>

LexLeq(a, b) ==
  \/ a = b
  \/ \E i \in 1..Len(a) :
       /\ \A j \in 1..(i - 1) : a[j] = b[j]
       /\ DigitVal(a[i]) < DigitVal(b[i])

\* an integer column: the whole part of a text the integer cast accepts
\* (sign, digits, optional "." and digits) within 32 bits, else the default
IntExpect(cell, default) ==
  IF IsNull(cell) THEN default
  ELSE LET tr  == Trim(NoCR(cell.v))
           u   == Unsigned(tr)
           d   == StripZeros(WholeDigits(u))
           lim == IF IsNegative(tr) THEN MinDigits ELSE MaxDigits
       IN  IF ~DecimalShape(u) THEN default
           ELSE IF Len(d) > 10 \/ (Len(d) = 10 /\ ~LexLeq(d, lim)) THEN default
           ELSE IF IsNegative(tr) /\ d = MinDigits THEN IntV(IntMin)
           ELSE IntV(IF IsNegative(tr) THEN -PosValue(d, 1) ELSE PosValue(d, 1))

QuantityExpect(cell) ==
  IF ~IsNull(cell) /\ NoCR(cell.v) = Three THEN IntV(3)
  ELSE IntExpect(cell, IntV(0))

AmountExpect(cell) ==
  IF IsNull(cell) THEN FloatV(0, 0)
  ELSE LET t == NoCR(cell.v)
           u == Unsigned(Trim(t))
           m == PosValue(WholeDigits(u) \o FracDigits(u), 1)
       IN  IF t = OneHundredPounds THEN FloatV(100, 0)
           ELSE IF ~IsNumericText(t) THEN FloatV(0, 0)
           ELSE FloatV(IF IsNegative(Trim(t)) THEN -m ELSE m, Len(FracDigits(u)))

MonthLengths == <<31, 28, 31, 30, 31, 30, 31, 31, 30, 31, 30, 31>>

DateExpect(cell) ==
  IF IsNull(cell) THEN CurrentDate
  ELSE LET t == NoCR(cell.v)
       IN  IF /\ Len(t) = 10
              /\ \A i \in 1..10 : IF i \in {5, 8} THEN t[i] = "-" ELSE t[i] \in Digits
           THEN LET y == PosValue(SubSeq(t, 1, 4), 1)
                    m == PosValue(SubSeq(t, 6, 7), 1)
                    d == PosValue(SubSeq(t, 9, 10), 1)
                    leap == y % 400 = 0 \/ (y % 4 = 0 /\ y % 100 # 0)
                IN  IF /\ m >= 1 /\ m <= 12 /\ d >= 1
                       /\ d <= MonthLengths[m] + (IF m = 2 /\ leap THEN 1 ELSE 0)
                    THEN DateV(y, m, d)
                    ELSE CurrentDate
           ELSE CurrentDate

ExpectedRow(r) ==
  [OrderID     |-> IntExpect(r.OrderID, Null),
   CustomerId  |-> IntExpect(r.CustomerId, Null),
   ProductID   |-> IntExpect(r.ProductID, IntV(1000)),
   OrderDate   |-> DateExpect(r.OrderDate),
   OrderAmount |-> AmountExpect(r.OrderAmount),
   Quantity    |-> QuantityExpect(r.Quantity)]

SixColumns(row) == [c \in Columns |-> row[c]]

HasCleaned == cleaned_df.k = "df"

SourceRows == {source.rows[i] : i \in 1..Len(source.rows)}
CleanedRows == {cleaned_df.rows[i] : i \in 1..Len(cleaned_df.rows)}

----------------------------------------------------------------------------
(* Claims *)

ReadError == "Error reading CSV file from GCS"
SaveOk == "File successfully written to GCS"
SaveError == "Error saving to GCS"
BqOk == "Data successfully written to BigQuery table"
BqError == "Error writing to BigQuery"

StageOrder == <<"read", "clean", "derive", "save", "write_bq">>

\* C1: every row returned by clean_data has a non-null OrderDate,
\* OrderAmount, Quantity and ProductID, whatever the raw fields were.
C1_NoNullAfterCleaning ==
  HasCleaned =>
    \A c \in CleanedRows :
      /\ c.OrderDate.k = "date"
      /\ c.OrderAmount.k = "float"
      /\ c.Quantity.k = "int"
      /\ c.ProductID.k = "int"

\* a file with an empty ProductID and Quantity, a non-numeric OrderAmount and
\* unparseable dates has been cleaned
C1_Witness ==
  /\ pc = "derive"
  /\ HasCleaned
  /\ {EndToEndRow, BrokenRow} \subseteq SourceRows

\* C2: the cleaned output never holds two equal rows; every input row is
\* represented by exactly one output row, also when raw rows that differ
\* become equal by cleaning, and also after OrderValue is added.
C2_NoDuplicateRows ==
  HasCleaned =>
    /\ \A i, j \in 1..Len(cleaned_df.rows) :
         i # j => cleaned_df.rows[i] # cleaned_df.rows[j]
    /\ \A r \in SourceRows :
         Cardinality({i \in 1..Len(cleaned_df.rows) :
                        SixColumns(cleaned_df.rows[i]) = ExpectedRow(r)}) = 1

\* two identical raw rows and a third that differs in the raw text have
\* collapsed to one row, and OrderValue has been added
C2_Witness ==
  /\ pc = "save"
  /\ Len(source.rows) = 3
  /\ \E i, j, k \in 1..3 :
       /\ i # j
       /\ source.rows[i] = source.rows[j]
       /\ source.rows[k] # source.rows[i]
  /\ Len(cleaned_df.rows) = 1

\* C3: after write_to_bq completes successfully the table holds exactly the
\* rows of the cleaned dataset and none of the rows it held before.
C3_TableReplaced ==
  (pc = "done" /\ HasCleaned /\ log[Len(log)] = BqOk) =>
    table = cleaned_df.rows

\* C4: a read that fails logs the error and returns None without raising,
\* and that run cleans nothing, derives nothing and writes to neither sink
\* before it exits normally.
C4_AfterRead ==
  (pc # "read" /\ df = None) =>
    /\ pc = "done"
    /\ uncaught = "none"
    /\ cleaned_df = None
    /\ log = <<ReadError>>
    /\ trace = <<Stage("read", None)>>

C4_ReadStep ==
  (pc = "read" /\ pc' # "clean") =>
    /\ pc' = "done"
    /\ df' = None
    /\ UNCHANGED <<cleaned_df, staging, table, uncaught>>

C4_ExitStep ==
  (pc = "done" /\ df = None) => (pc' = "read" /\ UNCHANGED <<staging, table>>)

C4_ReadFailureShortCircuits ==
  []C4_AfterRead /\ [][C4_ReadStep /\ C4_ExitStep]_vars

\* a run whose read failed has ended, with rows waiting in the table
C4_Witness ==
  /\ pc = "done"
  /\ df = None
  /\ log = <<ReadError>>
  /\ table = <<PriorRow>>
  /\ StartsWith(gcs_path, GsPrefix)

\* C5: whenever the dataset was read and cleaned, the warehouse write is
\* attempted after the object-store write whether that one succeeded or
\* failed, a failure of either sink is logged and not propagated, and the
\* run reaches its normal exit.
C5_State ==
  /\ pc # "crashed"
  /\ uncaught = "none"
  /\ (HasCleaned /\ pc \in {"write_bq", "done"}) =>
       /\ Len(trace) >= 4
       /\ trace[4].stage = "save"
       /\ log[3] \in {SaveOk, SaveError}
  /\ (HasCleaned /\ pc = "done") =>
       /\ Len(trace) = 5
       /\ trace[5].stage = "write_bq"
       /\ log[4] \in {BqOk, BqError}

C5_Step ==
  /\ pc = "save" => pc' = "write_bq"
  /\ pc = "write_bq" => pc' = "done"

C5_SinkFailureIsLocal == []C5_State /\ [][C5_Step]_vars

\* the object-store write failed, the warehouse write ran and succeeded
C5_Witness ==
  /\ pc = "done"
  /\ HasCleaned
  /\ log[3] = SaveError
  /\ log[4] = BqOk

HasGsPrefix(p) ==
  /\ Len(p) >= 5
  /\ p[1] = "g" /\ p[2] = "s" /\ p[3] = ":" /\ p[4] = "/" /\ p[5] = "/"

HasSlash(t) == \E i \in 1..Len(t) : t[i] = "/"

\* C6: a URI without the gs:// prefix is rejected with a ValueError raised
\* while parsing, so the read fails at once and the run does nothing else; a
\* URI with the prefix is split at the first "/" after it into bucket and
\* key, the key being empty when there is no "/".
C6_PathRejectedOrSplit ==
  LET parsed == parse_gcs_path(gcs_path)
      rest   == SubSeq(gcs_path, 6, Len(gcs_path))
  IN  IF HasGsPrefix(gcs_path)
      THEN /\ parsed.kind = "return"
           /\ ~HasSlash(parsed.val[1])
           /\ IF HasSlash(rest)
              THEN parsed.val[1] \o <<"/">> \o parsed.val[2] = rest
              ELSE parsed.val[1] = rest /\ parsed.val[2] = <<>>
      ELSE /\ parsed.kind = "raise"
           /\ parsed.val = "ValueError"
           /\ \A io_ok \in BOOLEAN :
                LET body == ReadBody(gcs_path, source, io_ok)
                IN  body.kind = "raise" /\ body.val = "ValueError"
           /\ pc # "read" =>
                /\ pc = "done"
                /\ df = None
                /\ log = <<ReadError>>
                /\ trace = <<Stage("read", None)>>

\* a run given a URI of another scheme has ended after the failed read
C6_Witness ==
  /\ pc = "done"
  /\ gcs_path # <<>>
  /\ ~HasGsPrefix(gcs_path)
  /\ df = None
  /\ log = <<ReadError>>

\* C7: "One Hundred Pounds" ends as OrderAmount 100 and "Three" as Quantity
\* 3; any other OrderAmount or Quantity ends as its numeric value (coerced to
\* the column's type) when it is numeric text and as 0, the default for the
\* null it becomes, otherwise.
C7_LiteralNormalization ==
  HasCleaned =>
    \A r \in SourceRows :
      \E c \in CleanedRows :
        /\ c.OrderAmount = AmountExpect(r.OrderAmount)
        /\ c.Quantity = QuantityExpect(r.Quantity)
        /\ r.OrderAmount = Text(OneHundredPounds) => c.OrderAmount = FloatV(100, 0)
        /\ r.Quantity = Text(Three) => c.Quantity = IntV(3)

\* a row carrying both literals has been cleaned
C7_Witness ==
  /\ HasCleaned
  /\ \E r \in SourceRows :
       r.OrderAmount = Text(OneHundredPounds) /\ r.Quantity = Text(Three)
  /\ \E c \in CleanedRows :
       c.OrderAmount = FloatV(100, 0) /\ c.Quantity = IntV(3)

\* C8: a missing or unconvertible ProductID becomes 1000, Quantity 0,
\* OrderAmount 0, an empty or unparseable OrderDate the current date; a value
\* that converts is kept; an unconvertible OrderID or CustomerId stays null.
C8_DefaultTable ==
  HasCleaned =>
    \A r \in SourceRows :
      \E c \in CleanedRows : SixColumns(c) = ExpectedRow(r)

\* rows with an empty ProductID, an unparseable date, an unconvertible
\* OrderID and an empty CustomerId have been cleaned
C8_Witness ==
  /\ HasCleaned
  /\ {EndToEndRow, BrokenRow} \subseteq SourceRows
  /\ \E c \in CleanedRows :
       /\ IsNull(c.OrderID) /\ IsNull(c.CustomerId)
       /\ c.OrderDate = CurrentDate
  /\ \E c \in CleanedRows : c.ProductID = IntV(1000)

AmountDefaulted(cell) ==
  \/ IsNull(cell)
  \/ NoCR(cell.v) # OneHundredPounds /\ ~IsNumericText(NoCR(cell.v))

QuantityDefaulted(cell) ==
  \/ IsNull(cell)
  \/ NoCR(cell.v) # Three /\ ~IsNumericText(NoCR(cell.v))

EndToEndOutput ==
  [OrderID     |-> IntV(1),
   CustomerId  |-> IntV(10),
   ProductID   |-> IntV(1000),
   OrderDate   |-> CurrentDate,
   OrderAmount |-> FloatV(100, 0),
   Quantity    |-> IntV(3),
   OrderValue  |-> FloatV(300, 0)]

\* C9: every row handed to the sinks has OrderValue = OrderAmount x Quantity
\* of its cleaned values, never null, 0 when either factor was defaulted;
\* 50 x 2 gives 100 and the end-to-end row gives 300.
C9_OrderValue ==
  (HasCleaned /\ pc \in {"save", "write_bq", "done"}) =>
    /\ \A i \in 4..Len(trace) : trace[i].data = cleaned_df
    /\ \A c \in CleanedRows :
         /\ c.OrderValue.k = "float"
         /\ c.OrderValue.v[1] * Pow10(c.OrderAmount.v[2])
              = c.OrderAmount.v[1] * c.Quantity.v * Pow10(c.OrderValue.v[2])
         /\ (c.OrderAmount = FloatV(50, 0) /\ c.Quantity = IntV(2))
              => c.OrderValue = FloatV(100, 0)
    /\ \A r \in SourceRows :
         \E c \in CleanedRows :
           /\ SixColumns(c) = ExpectedRow(r)
           /\ (AmountDefaulted(r.OrderAmount) \/ QuantityDefaulted(r.Quantity))
                => c.OrderValue = FloatV(0, 0)
    /\ EndToEndRow \in SourceRows => EndToEndOutput \in CleanedRows

\* the end-to-end row and a row with a defaulted factor have reached the sinks
C9_Witness ==
  /\ pc = "write_bq"
  /\ HasCleaned
  /\ {EndToEndRow, BrokenRow} \subseteq SourceRows
  /\ EndToEndOutput \in CleanedRows
  /\ \E c \in CleanedRows : c.OrderValue = FloatV(0, 0)

\* C10: the stages of a run happen in the order read, clean, derive, save,
\* write_bq, each at most once and each after the one before has finished;
\* OrderValue is derived from the deduplicated rows, and both sinks receive
\* the same dataset, the cleaned rows with OrderValue.
C10_StagesInOrder ==
  /\ Len(trace) <= Len(StageOrder)
  /\ \A i \in 1..Len(trace) : trace[i].stage = StageOrder[i]
  /\ pc = "read" => trace = <<>>
  /\ pc = "clean" => Len(trace) = 1
  /\ pc = "derive" => Len(trace) = 2
  /\ pc = "save" => Len(trace) = 3
  /\ pc = "write_bq" => Len(trace) = 4
  /\ pc = "done" => Len(trace) = 5 \/ (Len(trace) = 1 /\ df = None)
  /\ Len(trace) >= 2 =>
       /\ trace[1].data = df
       /\ \A i \in 1..Len(trace[2].data.rows) :
            DOMAIN trace[2].data.rows[i] = Columns
  /\ Len(trace) >= 3 =>
       /\ Len(trace[3].data.rows) = Len(trace[2].data.rows)
       /\ \A i \in 1..Len(trace[3].data.rows) :
            /\ DOMAIN trace[3].data.rows[i] = Columns \cup {"OrderValue"}
            /\ SixColumns(trace[3].data.rows[i]) = trace[2].data.rows[i]
  /\ Len(trace) >= 4 => trace[4].data = trace[3].data
  /\ Len(trace) >= 5 => trace[5].data = trace[4].data

\* a run has gone through all five stages
C10_Witness ==
  /\ pc = "done"
  /\ Len(trace) = 5
  /\ Len(trace[5].data.rows) = 2

====
